---- MODULE Spec2Model ----
(***************************************************************************)
(* A2C agent of src/algos/a2c_gnn.py: the zero-inflated Dirichlet action   *)
(* sampler (A2C.select_action), the episode buffers (saved_actions,        *)
(* rewards), the update (A2C.training_step) with its losses, the graph     *)
(* construction of GNNParser.parse_obs, the learning-rate, environment and *)
(* checkpoint operations of the agent, and the equal-distribution loop of  *)
(* main_baselines.py that turns shares into vehicle counts.                *)
(*                                                                         *)
(* Numbers.  Tensors of float32 are modelled in fixed point:               *)
(*   - a share of the simplex is an integer number of 1/ONE, ONE = 2^24    *)
(*     (the float32 significand), obtained by rounding the exact quotient; *)
(*   - a concentration is a positive integer (softplus + jitter > 0);      *)
(*   - a participation probability is p/ProbDen with p in 0..ProbDen, the  *)
(*     ends being the values a float32 sigmoid saturates to;               *)
(*   - a natural logarithm is an integer number of 1/1000 (LnTable);       *)
(*   - a reward is an integer and a discounted return an integer number of *)
(*     1/RetScale, which keeps r + 0.97 * R exact.                         *)
(***************************************************************************)
EXTENDS Integers, Sequences, FiniteSets, TLC

VARIABLES number_nodes,        \* len(env.nodes): rows of every forward output
          saved_actions,       \* self.saved_actions: Seq of SavedAction
          rewards,             \* self.rewards
          means_concentration, \* self.means_concentration
          std_concentration,   \* self.std_concentration
          op,                  \* the operation that produced this state
          sel,                 \* inputs, draws, locals and result of the last select_action
          upd,                 \* locals and outcome of the last training_step
          env,                 \* self.env: the simulator the agent holds
          obs_parser,          \* self.obs_parser: the GNNParser and the simulator it reads
          params,              \* the weights of self.actor and self.critic
          adapted_lr,          \* self.adapted_lr_a, self.adapted_lr_c
          optimizers,          \* the learning rate inside each Adam of self.optimizers
          ckpt,                \* the checkpoint file written by save_checkpoint
          decay_calls,         \* the scalers of the decay_learning_rate calls so far
          scenario,            \* what parse_obs reads of the simulator
          parsed,              \* arguments and result of the last parse_obs
          drv                  \* locals of the last step of the baseline driver

vars == <<number_nodes, saved_actions, rewards, means_concentration,
          std_concentration, op, sel, upd, env, obs_parser, params, adapted_lr,
          optimizers, ckpt, decay_calls, scenario, parsed, drv>>

\* what the buffer operations of the agent neither read nor write
outside_agent == <<ckpt, decay_calls, scenario, parsed, drv>>

\* the simulator, the networks and their optimizers
networks == <<env, obs_parser, params, adapted_lr, optimizers>>

----------------------------------------------------------------------------
(* Bounds of the model *)

MaxNodes == 2
MaxConc == 2
ProbDen == 2
DirSpread == 1
MaxSteps == 2
MaxStats == 2
LifeReward == 1
MaxEpisode == 3
MaxReward == 2
MaxDecays == 2
MaxScaler == 2
MaxEnvs == 2
MaxAgentSteps == 1
DriverNodes == 3
MaxAcc == 4
MaxRegions == 2
MaxChargeLevels == 2
MaxSimEdges == 2
MaxDelta == 1
MaxHorizon == 2
MaxLossSteps == 3
LossReward == 1
LargeLogProb == 1100000
LargeValue == 400000

(* Program constants *)

ONE == 16777216
GammaNum == 97
GammaDen == 100
LossClamp == 1000
ScalerDen == 2

----------------------------------------------------------------------------
(* Arithmetic helpers *)

RECURSIVE SeqSum(_)
SeqSum(s) == IF s = <<>> THEN 0 ELSE Head(s) + SeqSum(Tail(s))

Abs(x) == IF x < 0 THEN 0 - x ELSE x

Min2(a, b) == IF a < b THEN a ELSE b

\* a / b rounded to the nearest integer (a >= 0, b > 0)
RoundDiv(a, b) == (2 * a + b) \div (2 * b)

RECURSIVE Pow(_, _)
Pow(b, e) == IF e <= 0 THEN 1 ELSE b * Pow(b, e - 1)

RECURSIVE ISqrtBetween(_, _, _)
\* the r in lo..hi with r*r <= n < (r+1)*(r+1), by bisection
ISqrtBetween(n, lo, hi) ==
  IF lo >= hi THEN lo
  ELSE LET mid == (lo + hi + 1) \div 2
       IN IF mid * mid <= n THEN ISqrtBetween(n, mid, hi)
                            ELSE ISqrtBetween(n, lo, mid - 1)

\* floor of the square root (n < 2^30)
ISqrt(n) == ISqrtBetween(n, 0, 32767)

\* 1000 * ln(n) rounded, n in 1..40
LnTable ==
  << 0, 693, 1099, 1386, 1609, 1792, 1946, 2079, 2197, 2303,
     2398, 2485, 2565, 2639, 2708, 2773, 2833, 2890, 2944, 2996,
     3045, 3091, 3135, 3178, 3219, 3258, 3296, 3332, 3367, 3401,
     3434, 3466, 3497, 3526, 3555, 3584, 3611, 3638, 3664, 3689 >>

\* torch.log of a positive integer, in 1/1000
Ln(n) == LnTable[n]

\* torch.log(non_zero[node]) with non_zero[node] = p / ProbDen
LogProb(p) == Ln(p) - Ln(ProbDen)

\* torch.log(1 - non_zero[node])
LogOneMinusProb(p) == Ln(ProbDen - p) - Ln(ProbDen)

RECURSIVE LGamma(_)
\* torch.lgamma of a positive integer: ln((n-1)!)
LGamma(n) == IF n <= 1 THEN 0 ELSE Ln(n - 1) + LGamma(n - 1)

----------------------------------------------------------------------------
(* A2C.forward: what the networks hand to select_action *)

\* concentration = softplus(.) + jitter, one positive entry per node
Concentrations(n) == [1..n -> 1..MaxConc]

\* non_zero = sigmoid(.), one probability per node, in 1/ProbDen
NonZeros(n) == [1..n -> 0..ProbDen]

\* GNNCritic.forward returns lin4(x): one row per node, no pooling over nodes
CriticRows(n) == n

\* value = self.critic(x): a tensor of CriticRows(n) entries
CriticValues(n) == [1..CriticRows(n) -> {0}]

----------------------------------------------------------------------------
(* A2C.select_action *)

\* torch.bernoulli(non_zero[node]): the outcomes of probability > 0
BernoulliOutcomes(p) ==
  IF p = 0 THEN {0} ELSE IF p = ProbDen THEN {1} ELSE {0, 1}

\* one Bernoulli draw per node, in node order
BernoulliDraws(non_zero) ==
  { s \in [1..Len(non_zero) -> {0, 1}] :
      \A node \in 1..Len(non_zero) : s[node] \in BernoulliOutcomes(non_zero[node]) }

RECURSIVE ConcentrationWithoutZeros(_, _)
\* the loop of lines 476-486: torch.cat of the participating nodes' concentrations
ConcentrationWithoutZeros(concentration, sample) ==
  IF concentration = <<>> THEN <<>>
  ELSE IF Head(sample) > 0
       THEN <<Head(concentration)>>
            \o ConcentrationWithoutZeros(Tail(concentration), Tail(sample))
       ELSE ConcentrationWithoutZeros(Tail(concentration), Tail(sample))

\* sampled_zero_bool_arr: True where the node drew 0
SampledZeroBoolArr(sample) == [node \in 1..Len(sample) |-> ~(sample[node] > 0)]

\* the term one node adds to log_prob_for_zeros
LogProbTerm_OnlyParticipants(p, s) == IF s > 0 THEN LogProb(p) ELSE 0

LogProbTerm(p, s) == IF s > 0 THEN LogProb(p) ELSE LogOneMinusProb(p)

RECURSIVE LogProbForZeros(_, _)
\* log_prob_for_zeros accumulated over the nodes, from 0
LogProbForZeros(non_zero, sample) ==
  IF non_zero = <<>> THEN 0
  ELSE LogProbTerm(Head(non_zero), Head(sample))
       + LogProbForZeros(Tail(non_zero), Tail(sample))

\* np.mean(concentration_without_zeros), in 1/100
MeanConcentration(cwz) == RoundDiv(100 * SeqSum(cwz), Len(cwz))

\* np.std(concentration_without_zeros) (population), in 1/100
StdConcentration(cwz) ==
  LET k == Len(cwz)
      sq == SeqSum([i \in 1..k |-> cwz[i] * cwz[i]])
  IN RoundDiv(ISqrt(10000 * (k * sq - SeqSum(cwz) * SeqSum(cwz))), k)

\* m.rsample(): a point of the open simplex with k coordinates, as num[i] / den
DirichletPoints(k) ==
  { [num |-> v, den |-> k + DirSpread] :
      v \in { w \in [1..k -> 1..(DirSpread + 1)] : SeqSum(w) = k + DirSpread } }

\* the empty point (no participating node, or no draw made)
NoPoint == [num |-> <<>>, den |-> 1]

\* concentration_without_zeros / (concentration_without_zeros.sum() + 1e-16):
\* the sum is at least 1 and float32 absorbs the 1e-16
EvalNormalize_NoDivision(cwz) == [num |-> cwz, den |-> 1]

EvalNormalize(cwz) == [num |-> cwz, den |-> SeqSum(cwz)]

\* dirichlet_action: the normalized concentration in evaluation mode, else the draw
DirichletAction_EvalIgnoresConcentration(cwz, eval_mode, rsample) ==
  IF eval_mode THEN [num |-> [i \in 1..Len(cwz) |-> 1], den |-> Len(cwz)] ELSE rsample

DirichletAction(cwz, eval_mode, rsample) ==
  IF eval_mode THEN EvalNormalize(cwz) ELSE rsample

\* list(dirichlet_action.detach().numpy()): the float32 shares, in 1/ONE
DirichletActionNp(point) ==
  [i \in 1..Len(point.num) |-> RoundDiv(point.num[i] * ONE, point.den)]

\* torch.xlogy(a, x) with x = num / den
XLogY(a, num, den) == IF a = 0 THEN 0 ELSE a * (Ln(num) - Ln(den))

\* Dirichlet(alpha).log_prob(point):
\* sum xlogy(alpha - 1, x) + lgamma(sum alpha) - sum lgamma(alpha).
\* Its argument check (a point of the simplex within 1e-6) accepts every point
\* of this model, whose shares are off by at most one 2^-24 each.
DirichletLogProb(alpha, point) ==
  SeqSum([i \in 1..Len(alpha) |-> XLogY(alpha[i] - 1, point.num[i], point.den)])
  + LGamma(SeqSum(alpha))
  - SeqSum([i \in 1..Len(alpha) |-> LGamma(alpha[i])])

\* log_prob_dirichlet: m.log_prob(dirichlet_action), or the literal 0 of the else branch
LogProbDirichlet(cwz, point) ==
  IF Len(cwz) # 0 THEN DirichletLogProb(cwz, point) ELSE 0

\* dirichlet_idx += 1
NextDirichletIdx_Stuck(dirichlet_idx) == dirichlet_idx

NextDirichletIdx(dirichlet_idx) == dirichlet_idx + 1

RECURSIVE ActionNpFrom(_, _, _, _)
\* the loop of lines 504-509 from node on (dirichlet_idx counts from 1 here)
ActionNpFrom(sampled_zero_bool_arr, dirichlet_action_np, node, dirichlet_idx) ==
  IF node > Len(sampled_zero_bool_arr) THEN <<>>
  ELSE IF sampled_zero_bool_arr[node]
       THEN <<0>> \o ActionNpFrom(sampled_zero_bool_arr, dirichlet_action_np,
                                  node + 1, dirichlet_idx)
       ELSE <<dirichlet_action_np[dirichlet_idx]>>
            \o ActionNpFrom(sampled_zero_bool_arr, dirichlet_action_np,
                            node + 1, NextDirichletIdx(dirichlet_idx))

\* action_np as returned
ActionNp(sampled_zero_bool_arr, dirichlet_action_np) ==
  ActionNpFrom(sampled_zero_bool_arr, dirichlet_action_np, 1, 1)

\* SavedAction(log_prob_dirichlet + log_prob_for_zeros, value)
SavedAction(log_prob, value) == [log_prob |-> log_prob, value |-> value]

\* self.saved_actions.append(...)
AppendSavedAction_Overwrite(actions, record) == <<record>>

AppendSavedAction(actions, record) == Append(actions, record)

\* sel and upd when the last operation was not theirs
NoSel == [eval_mode |-> FALSE, concentration |-> <<>>, non_zero |-> <<>>,
          sample |-> <<>>, concentration_without_zeros |-> <<>>,
          dirichlet_action |-> NoPoint, dirichlet_action_np |-> <<>>,
          log_prob_for_zeros |-> 0, log_prob_dirichlet |-> 0, action_np |-> <<>>]

\* a float32 scalar: a number, in 1/1000, or nan
Num(v) == [nan |-> FALSE, val |-> v]

NaN == [nan |-> TRUE, val |-> 0]

NoUpd == [raised |-> FALSE, n_actions |-> 0, rewards |-> <<>>, n_pairs |-> 0,
          returns |-> <<>>, normalized |-> <<>>, policy_losses |-> <<>>,
          value_losses |-> <<>>, a_loss |-> NaN, v_loss |-> NaN,
          mean_concentration |-> NaN, mean_std |-> NaN]

\* one call select_action(eval_mode) whose forward pass gave (concentration,
\* non_zero, value), whose Bernoulli draws were sample and whose m.rsample(),
\* when it is called, gave rsample
SelectAction(concentration, non_zero, value, eval_mode, sample, rsample) ==
  LET cwz == ConcentrationWithoutZeros(concentration, sample)
      szb == SampledZeroBoolArr(sample)
      lpz == LogProbForZeros(non_zero, sample)
      some == Len(cwz) # 0
      point == IF some THEN DirichletAction(cwz, eval_mode, rsample) ELSE NoPoint
      danp == DirichletActionNp(point)
      lpd == LogProbDirichlet(cwz, point)
  IN /\ means_concentration' =
          IF some THEN Append(means_concentration, MeanConcentration(cwz))
                  ELSE means_concentration
     /\ std_concentration' =
          IF some THEN Append(std_concentration, StdConcentration(cwz))
                  ELSE std_concentration
     /\ saved_actions' = AppendSavedAction(saved_actions, SavedAction(lpd + lpz, value))
     /\ op' = "select_action"
     /\ sel' = [eval_mode |-> eval_mode, concentration |-> concentration,
                non_zero |-> non_zero, sample |-> sample,
                concentration_without_zeros |-> cwz,
                dirichlet_action |-> point, dirichlet_action_np |-> danp,
                log_prob_for_zeros |-> lpz, log_prob_dirichlet |-> lpd,
                action_np |-> ActionNp(szb, danp)]
     /\ upd' = NoUpd
     /\ UNCHANGED <<number_nodes, rewards>>
     /\ UNCHANGED <<networks, outside_agent>>

\* the m.rsample() values a call can see: none when it is not called
RSamples(eval_mode, sample) ==
  IF eval_mode \/ SeqSum(sample) = 0 THEN {NoPoint} ELSE DirichletPoints(SeqSum(sample))

----------------------------------------------------------------------------
(* The reward buffer: the driver appends one reward to agent.rewards *)

RewardAppend(r) ==
  /\ rewards' = Append(rewards, r)
  /\ op' = "reward_append"
  /\ sel' = NoSel
  /\ upd' = NoUpd
  /\ UNCHANGED <<number_nodes, saved_actions, means_concentration, std_concentration>>
  /\ UNCHANGED <<networks, outside_agent>>

----------------------------------------------------------------------------
(* A2C.training_step *)

\* one unit of reward, in units of a return
RetScale == Pow(GammaDen, MaxEpisode - 1)

\* R = r + args.gamma * R
DiscountedValue_NoDiscount(r, R) == r * RetScale + R

DiscountedValue(r, R) == r * RetScale + (GammaNum * R) \div GammaDen

\* returns.insert(0, R)
InsertReturn_AtEnd(returns, R) == Append(returns, R)

InsertReturn(returns, R) == <<R>> \o returns

\* self.rewards[::-1]
Reversed(s) == [i \in 1..Len(s) |-> s[Len(s) + 1 - i]]

RECURSIVE ReturnsLoop(_, _, _)
\* the loop of lines 618-621 over the rewards still to visit
ReturnsLoop(todo, R, returns) ==
  IF todo = <<>> THEN returns
  ELSE LET R2 == DiscountedValue(Head(todo), R)
       IN ReturnsLoop(Tail(todo), R2, InsertReturn(returns, R2))

\* returns before torch.tensor(returns) and the normalization, from R = 0
Returns(rw) == ReturnsLoop(Reversed(rw), 0, <<>>)

\* value.item(): a tensor of more than one element cannot be converted to a scalar
ValueItemRaises(value) == Len(value) # 1

\* zip(saved_actions, returns) stops at the shorter
ZipLength(n_actions, n_returns) == Min2(n_actions, n_returns)

\* torch.stack(policy_losses) of an empty list raises
StackRaises(n_losses) == n_losses = 0

\* del self.rewards[:]
ResetRewards(rw) == <<>>

\* del self.saved_actions[:]
ResetSavedActions_Forgotten(actions) == actions

ResetSavedActions(actions) == <<>>

\* torch.tensor(returns): the returns as float32, in 1/GammaDen
ReturnsTensor(returns) ==
  [t \in 1..Len(returns) |-> RoundDiv(returns[t], RetScale \div GammaDen)]

\* a * b / 1000 with the sign of the product, no intermediate above a * b / 1000
MulMilli(a, b) ==
  LET x == Abs(a)
      y == Abs(b)
      m == (x \div 1000) * y + ((x % 1000) * y) \div 1000
  IN IF (a < 0) = (b < 0) THEN m ELSE 0 - m

\* (returns - returns.mean()) / (returns.std() + self.eps), each in 1/1000.
\* returns.std() is the sample deviation (n - 1): nan for a single return, and
\* then every quotient is nan.  With n returns of sum S the differences are
\* d[t] = n * returns[t] - S and n * std = sqrt(sum d[t]^2 / (n - 1)); eps, the
\* float32 epsilon, only counts when the deviation is 0, where 0 / eps = 0.
Normalize(rt) ==
  LET n == Len(rt)
      d == [t \in 1..n |-> n * rt[t] - SeqSum(rt)]
      nstd == ISqrt(SeqSum([t \in 1..n |-> d[t] * d[t]]) \div (n - 1))
  IN [t \in 1..n |->
        IF n = 1 THEN NaN
        ELSE IF nstd = 0 THEN Num(0)
        ELSE Num((IF d[t] < 0 THEN 0 - 1 ELSE 1) * RoundDiv(1000 * Abs(d[t]), nstd))]

\* advantage = R - value.item()
Advantage(R, value) == IF R.nan THEN NaN ELSE Num(R.val - value[1])

\* -log_prob * advantage
PolicyLoss(log_prob, advantage) ==
  IF advantage.nan THEN NaN ELSE Num(MulMilli(0 - log_prob, advantage.val))

\* F.smooth_l1_loss(value, torch.tensor([R])): 0.5 * d^2 below 1, else |d| - 0.5
SmoothL1Loss(value, R) ==
  IF R.nan THEN NaN
  ELSE LET d == Abs(value[1] - R.val)
       IN Num(IF d < 1000 THEN (d * d) \div 2000 ELSE d - 500)

RECURSIVE StackSum(_)
\* torch.stack(losses).sum(): nan as soon as one term is
StackSum(losses) ==
  IF losses = <<>> THEN Num(0)
  ELSE LET rest == StackSum(Tail(losses))
       IN IF Head(losses).nan \/ rest.nan THEN NaN
          ELSE Num(Head(losses).val + rest.val)

\* torch.clamp(a_loss, -1000, 1000): nan stays nan
Clamp_Absent(x, lo, hi) == x

Clamp(x, lo, hi) ==
  IF x.nan THEN NaN
  ELSE Num(IF x.val < lo THEN lo ELSE IF x.val > hi THEN hi ELSE x.val)

\* np.mean(list): nan for the empty list, else in the unit of the entries
NpMean_LastEntry(list) ==
  IF list = <<>> THEN NaN ELSE Num(list[Len(list)])

NpMean(list) ==
  IF list = <<>> THEN NaN ELSE Num(RoundDiv(SeqSum(list), Len(list)))

\* optimizer.step(): the weights get new values.  Weights are modelled by a
\* tag, 0 or 1, that every write flips: enough to tell a write from none
OptimizerStep(weights) == 1 - weights

\* one call training_step(): it raises at value.item() (line 631) or at
\* torch.stack (line 651), both before any optimizer step and before the
\* buffers are reset, or it completes.  upd keeps the locals of the call and
\* the values it returns.
TrainingStep ==
  LET returns == Returns(rewards)
      n_pairs == ZipLength(Len(saved_actions), Len(returns))
      raised == IF \E t \in 1..Len(saved_actions) : ValueItemRaises(saved_actions[t].value)
                THEN TRUE ELSE StackRaises(n_pairs)
      normalized == Normalize(ReturnsTensor(returns))
      policy_losses ==
        [t \in 1..n_pairs |->
           PolicyLoss(saved_actions[t].log_prob,
                      Advantage(normalized[t], saved_actions[t].value))]
      value_losses ==
        [t \in 1..n_pairs |-> SmoothL1Loss(saved_actions[t].value, normalized[t])]
  IN /\ op' = "training_step"
     /\ upd' = IF raised
               THEN [NoUpd EXCEPT !.raised = TRUE, !.n_actions = Len(saved_actions),
                                  !.rewards = rewards, !.n_pairs = n_pairs,
                                  !.returns = returns]
               ELSE [raised |-> FALSE, n_actions |-> Len(saved_actions),
                     rewards |-> rewards, n_pairs |-> n_pairs, returns |-> returns,
                     normalized |-> normalized, policy_losses |-> policy_losses,
                     value_losses |-> value_losses,
                     a_loss |-> Clamp(StackSum(policy_losses),
                                      0 - 1000 * LossClamp, 1000 * LossClamp),
                     v_loss |-> StackSum(value_losses),
                     mean_concentration |-> NpMean(means_concentration),
                     mean_std |-> NpMean(std_concentration)]
     /\ sel' = NoSel
     /\ rewards' = IF raised THEN rewards ELSE ResetRewards(rewards)
     /\ saved_actions' = IF raised THEN saved_actions ELSE ResetSavedActions(saved_actions)
     /\ params' = IF raised THEN params
                  ELSE [actor |-> OptimizerStep(params.actor),
                        critic |-> OptimizerStep(params.critic)]
     /\ UNCHANGED <<number_nodes, means_concentration, std_concentration>>
     /\ UNCHANGED <<env, obs_parser, adapted_lr, optimizers, outside_agent>>

----------------------------------------------------------------------------
(* GNNParser.parse_obs: the edge index and the edge features.  A node is a    *)
(* pair <<region, charge level>>, an edge of the simulator a pair of nodes,   *)
(* an entry of an edge index a pair of positions in env.nodes (from 1).       *)

\* the condition of one `if` of the pairwise scan, by the policy it belongs to
RuleHolds_SelfLoopByRegion(rule, o, d, charge_delta, max_charge) ==
  CASE rule = "self_loop" -> o[1] = d[1]
    [] rule = "grid" ->
         \/ o[2] = d[2] /\ o[1] # d[1]
         \/ o[2] = d[2] - 1 /\ o[1] = d[1]
         \/ o[2] = d[2] + 1 /\ o[1] = d[1]
    [] rule = "grid_or_self_loop" ->
         \/ o[2] = d[2] /\ o[1] = d[1]
         \/ o[2] = d[2] /\ o[1] # d[1]
         \/ o[2] = d[2] - 1 /\ o[1] = d[1]
         \/ o[2] = d[2] + 1 /\ o[1] = d[1]
    [] rule = "artificial" ->
         o[1] # d[1] /\ o[2] + (charge_delta - 1) = d[2] /\ d[2] # max_charge
    [] rule = "infeasible" -> o[1] = d[1] /\ o[2] + (charge_delta + 1) = d[2]
    [] OTHER -> o[1] = d[1] /\ o[2] - 1 = d[2]

RuleHolds(rule, o, d, charge_delta, max_charge) ==
  CASE rule = "self_loop" -> o[1] = d[1] /\ o[2] = d[2]
    [] rule = "grid" ->
         \/ o[2] = d[2] /\ o[1] # d[1]
         \/ o[2] = d[2] - 1 /\ o[1] = d[1]
         \/ o[2] = d[2] + 1 /\ o[1] = d[1]
    [] rule = "grid_or_self_loop" ->
         \/ o[2] = d[2] /\ o[1] = d[1]
         \/ o[2] = d[2] /\ o[1] # d[1]
         \/ o[2] = d[2] - 1 /\ o[1] = d[1]
         \/ o[2] = d[2] + 1 /\ o[1] = d[1]
    [] rule = "artificial" ->
         o[1] # d[1] /\ o[2] + (charge_delta - 1) = d[2] /\ d[2] # max_charge
    [] rule = "infeasible" -> o[1] = d[1] /\ o[2] + (charge_delta + 1) = d[2]
    [] OTHER -> o[1] = d[1] /\ o[2] - 1 = d[2]

\* the `if`s inside the scan of a policy, in their order; each appends [o, d]
RulesOf_V4OnlySelfLoops(version) ==
  CASE version \in {1, 2, 4} -> <<"self_loop">>
    [] version = 3 -> <<"grid">>
    [] version = 5 -> <<"artificial", "infeasible", "unintuitive", "self_loop">>
    [] version = 6 -> <<"artificial", "infeasible", "unintuitive">>
    [] OTHER -> <<>>

RulesOf_SelfLoopTwice(version) ==
  CASE version \in {1, 2} -> <<"self_loop">>
    [] version = 3 -> <<"grid">>
    [] version = 4 -> <<"grid_or_self_loop">>
    [] version = 5 -> <<"artificial", "infeasible", "unintuitive", "self_loop", "self_loop">>
    [] version = 6 -> <<"artificial", "infeasible", "unintuitive">>
    [] OTHER -> <<>>

RulesOf(version) ==
  CASE version \in {1, 2} -> <<"self_loop">>
    [] version = 3 -> <<"grid">>
    [] version = 4 -> <<"grid_or_self_loop">>
    [] version = 5 -> <<"artificial", "infeasible", "unintuitive", "self_loop">>
    [] version = 6 -> <<"artificial", "infeasible", "unintuitive">>
    [] OTHER -> <<>>

\* whether the policy takes self.env.gcn_edge_idx, alone (0) or after its own
AppendsSimulator(version) == version \in {0, 2, 5, 6}

RECURSIVE IndexOf(_, _, _)
\* self.env.nodes.index(node): the first position holding it, from position i
IndexOf(nodes, node, i) ==
  IF nodes[i] = node THEN i ELSE IndexOf(nodes, node, i + 1)

\* for o in nodes: for d in nodes: <the ifs>: the steps of the scan in their
\* order, each an origin, a destination and the rule of one `if`
ScanSteps(sc, rules) ==
  LET n == Len(sc.nodes)
      m == Len(rules)
  IN [k \in 1..(n * n * m) |->
        [o |-> sc.nodes[((k - 1) \div (n * m)) + 1],
         d |-> sc.nodes[(((k - 1) \div m) % n) + 1],
         rule |-> rules[((k - 1) % m) + 1]]]

\* edges = [] ... edges.append([o, d]): the steps whose condition holds, each
\* kept with the rule that appended it
ConstructedEdges(sc, version) ==
  LET Appends(step) ==
        RuleHolds(step.rule, step.o, step.d, sc.charge_delta, sc.max_charge)
  IN SelectSeq(ScanSteps(sc, RulesOf(version)), Appends)

\* edge_idx: the positions in env.nodes of the ends of the given edges
EdgeIdx(sc, edges) ==
  [k \in 1..Len(edges) |->
     [pair |-> <<IndexOf(sc.nodes, edges[k].o, 1), IndexOf(sc.nodes, edges[k].d, 1)>>,
      rule |-> edges[k].rule]]

\* the entries of the edge index with the rule that gave each: the positions
\* of the constructed edges, then, by torch.cat, the simulator's edge index;
\* policy 0 is the simulator's alone
TaggedEdgeIndex(sc, version) ==
  LET own == EdgeIdx(sc, ConstructedEdges(sc, version))
      simulator == [k \in 1..Len(sc.gcn_edge_idx) |->
                      [pair |-> sc.gcn_edge_idx[k], rule |-> "simulator"]]
  IN IF AppendsSimulator(version) THEN own \o simulator ELSE own \o <<>>

RECURSIVE Pairs(_)
\* the entries alone
Pairs(tagged) ==
  IF tagged = <<>> THEN <<>> ELSE <<Head(tagged).pair>> \o Pairs(Tail(tagged))

RECURSIVE Rules(_)
\* the rule of each entry
Rules(tagged) ==
  IF tagged = <<>> THEN <<>> ELSE <<Head(tagged).rule>> \o Rules(Tail(tagged))

\* edge_index
EdgeIndex(sc, version) == Pairs(TaggedEdgeIndex(sc, version))

\* the rule that gave each entry of the edge index
Provenance(sc, version) == Rules(TaggedEdgeIndex(sc, version))

\* e in self.env.edges
IsSimulatorEdge(sc, e) == \E k \in 1..Len(sc.edges) : sc.edges[k] = e

\* self.env.demand[i, j][t], self.env.price[i, j][t] and
\* self.env.scenario.energy_distance[i, j] of the simulator's edge (i, j): one
\* number per edge, table and time step, all distinct and none 0
EdgeKey(sc, e) == CHOOSE k \in 1..Len(sc.edges) : sc.edges[k] = e

Demand(sc, e, t) == 1000 * EdgeKey(sc, e) + t

Price(sc, e, t) == 1000 * EdgeKey(sc, e) + 100 + t

EnergyDistance(sc, e) == 1000 * EdgeKey(sc, e) + 200

\* q of one edge: demand_for_e_t + price_for_e_t + energy_distance_e_t, each of
\* length T (time = 0), or 3 T zeros
EdgeFeatures(sc, e) ==
  IF IsSimulatorEdge(sc, e)
  THEN [t \in 1..sc.T |-> Demand(sc, e, t)] \o [t \in 1..sc.T |-> Price(sc, e, t)]
       \o [t \in 1..sc.T |-> EnergyDistance(sc, e)]
  ELSE [f \in 1..(3 * sc.T) |-> 0]

RECURSIVE EdgeAttrList(_, _)
\* edge_attr: one q per position of the edge index
EdgeAttrList(sc, edge_index) ==
  IF edge_index = <<>> THEN <<>>
  ELSE <<EdgeFeatures(sc, <<sc.nodes[Head(edge_index)[1]], sc.nodes[Head(edge_index)[2]]>>)>>
       \o EdgeAttrList(sc, Tail(edge_index))

RECURSIVE Flat(_)
\* tensor.view(1, np.prod(tensor.shape)): the rows one after the other
Flat(rows) == IF rows = <<>> THEN <<>> ELSE Head(rows) \o Flat(Tail(rows))

\* .squeeze(0).view(self.T * 3, edge_index.shape[1]).T: the flat values as 3 T
\* rows of E, transposed, so that entry [k][f] is flat[(f - 1) * E + k]
ViewTransposed(flat, width, E) ==
  [k \in 1..E |-> [f \in 1..width |-> flat[(f - 1) * E + k]]]

\* one call parse_obs(version, charge_delta, max_charge, MPNN) on the scenario;
\* tagged, q and flat are its locals
ParseObs(version, MPNN) ==
  \E tagged \in {TaggedEdgeIndex(scenario, version)} :
    \E q \in {IF MPNN THEN EdgeAttrList(scenario, Pairs(tagged)) ELSE <<>>} :
      \E flat \in {Flat(q)} :
     /\ parsed' = [called |-> TRUE, version |-> version, MPNN |-> MPNN,
                   edge_index |-> Pairs(tagged),
                   provenance |-> Rules(tagged),
                   q |-> q,
                   edge_attr |-> IF MPNN
                                 THEN ViewTransposed(flat, 3 * scenario.T, Len(tagged))
                                 ELSE <<>>]
     /\ op' = "parse_obs"
     /\ UNCHANGED <<number_nodes, saved_actions, rewards, means_concentration,
                    std_concentration, sel, upd, networks, ckpt, decay_calls,
                    scenario, drv>>

----------------------------------------------------------------------------
(* The other operations of the agent *)

\* GNNParser(env, ..., MPNN): the simulator it reads and its isMPNN flag
GNNParser(e, MPNN) == [env |-> e, MPNN |-> MPNN]

\* a learning rate is an integer number of lr / LrInit, so that MaxDecays
\* products with a scaler s / ScalerDen stay exact
LrInit == Pow(ScalerDen, MaxDecays)

\* self.adapted_lr_a *= scaler_a
Decayed_Reset(lr, scaler) == (LrInit * scaler) \div ScalerDen

Decayed(lr, scaler) == (lr * scaler) \div ScalerDen

\* configure_optimizers(): two new Adam, each with the adapted learning rate
ConfigureOptimizers(lr) == [a_optimizer |-> lr.a, c_optimizer |-> lr.c]

\* decay_learning_rate(scaler_a, scaler_c)
DecayLearningRate(scaler_a, scaler_c) ==
  /\ adapted_lr' = [a |-> Decayed(adapted_lr.a, scaler_a),
                    c |-> Decayed(adapted_lr.c, scaler_c)]
  /\ optimizers' = ConfigureOptimizers(adapted_lr')
  /\ decay_calls' = Append(decay_calls, [a |-> scaler_a, c |-> scaler_c])
  /\ op' = "decay_learning_rate"
  /\ sel' = NoSel
  /\ upd' = NoUpd
  /\ UNCHANGED <<number_nodes, saved_actions, rewards, means_concentration,
                 std_concentration, env, obs_parser, params, ckpt, scenario,
                 parsed, drv>>

\* self.means_concentration = [] and self.std_concentration = []
EmptyStatistics_Kept(stats) == stats

EmptyStatistics(stats) == <<>>

\* set_env(e), e a simulator of n nodes.  The parser is built without the MPNN
\* argument, whose default is False
SetEnv(e, n) ==
  /\ env' = e
  /\ number_nodes' = n
  /\ obs_parser' = GNNParser(e, FALSE)
  /\ means_concentration' = EmptyStatistics(means_concentration)
  /\ std_concentration' = EmptyStatistics(std_concentration)
  /\ op' = "set_env"
  /\ sel' = NoSel
  /\ upd' = NoUpd
  /\ UNCHANGED <<saved_actions, rewards, params, adapted_lr, optimizers,
                 outside_agent>>

NoCheckpoint ==
  [saved |-> FALSE, model |-> [actor |-> 0, critic |-> 0],
   a_optimizer |-> 0, c_optimizer |-> 0]

\* save_checkpoint(): the state_dict of the agent and of each optimizer
SaveCheckpoint ==
  /\ ckpt' = [saved |-> TRUE, model |-> params,
              a_optimizer |-> optimizers.a_optimizer,
              c_optimizer |-> optimizers.c_optimizer]
  /\ op' = "save_checkpoint"
  /\ sel' = NoSel
  /\ upd' = NoUpd
  /\ UNCHANGED <<number_nodes, saved_actions, rewards, means_concentration,
                 std_concentration, networks, decay_calls, scenario, parsed, drv>>

\* self.load_state_dict(checkpoint['model'])
LoadStateDict_Ignored(weights, saved) == weights

LoadStateDict(weights, saved) == saved

\* load_checkpoint(): torch.load raises when no file was saved; else the
\* weights and the state of each optimizer, its learning rate included, become
\* the saved ones.  self.adapted_lr_a and self.adapted_lr_c are not restored
LoadCheckpoint ==
  /\ params' = IF ckpt.saved THEN LoadStateDict(params, ckpt.model) ELSE params
  /\ optimizers' = IF ckpt.saved
                   THEN [a_optimizer |-> ckpt.a_optimizer,
                         c_optimizer |-> ckpt.c_optimizer]
                   ELSE optimizers
  /\ op' = "load_checkpoint"
  /\ sel' = NoSel
  /\ upd' = NoUpd
  /\ UNCHANGED <<number_nodes, saved_actions, rewards, means_concentration,
                 std_concentration, env, obs_parser, adapted_lr, outside_agent>>

\* forward(), select_equal_action() and log(): they return or store a value
\* outside the agent and assign nothing of it
ReadOnlyCall(name) ==
  /\ op' = name
  /\ sel' = NoSel
  /\ upd' = NoUpd
  /\ UNCHANGED <<number_nodes, saved_actions, rewards, means_concentration,
                 std_concentration, networks, outside_agent>>

----------------------------------------------------------------------------
(* The agent after A2C.__init__ *)

NoScenario ==
  [nodes |-> <<>>, edges |-> <<>>, gcn_edge_idx |-> <<>>, charge_delta |-> 0,
   max_charge |-> 0, T |-> 0]

NoParse == [called |-> FALSE, version |-> 0, MPNN |-> FALSE, edge_index |-> <<>>,
            provenance |-> <<>>, q |-> <<>>, edge_attr |-> <<>>]

NoDrv == [stepped |-> FALSE, action_rl |-> <<>>, acc |-> <<>>, total_acc |-> 0,
          truncated |-> <<>>, missing_cars |-> 0, desiredAcc |-> <<>>,
          sum_asserted |-> TRUE, nonneg_asserted |-> TRUE]

\* what __init__ assigns besides the simulator and the two buffers
ConstructedOutsideBuffers ==
  /\ means_concentration = <<>>
  /\ std_concentration = <<>>
  /\ op = "init"
  /\ sel = NoSel
  /\ upd = NoUpd
  /\ env = 1
  /\ obs_parser = GNNParser(1, TRUE)
  /\ params = [actor |-> 0, critic |-> 0]
  /\ adapted_lr = [a |-> LrInit, c |-> LrInit]
  /\ optimizers = ConfigureOptimizers(adapted_lr)
  /\ ckpt = NoCheckpoint
  /\ decay_calls = <<>>
  /\ parsed = NoParse
  /\ drv = NoDrv

Constructed ==
  /\ saved_actions = <<>>
  /\ rewards = <<>>
  /\ ConstructedOutsideBuffers

Init ==
  /\ number_nodes \in 1..MaxNodes
  /\ scenario = NoScenario
  /\ Constructed

----------------------------------------------------------------------------
(* Spec: the buffers over any interleaving of select_action, reward appends   *)
(* and training_step.  The forward pass gives every node concentration 1 and  *)
(* participation probability 1/ProbDen; the draws, the mode and the rewards   *)
(* are free.                                                                  *)

LifeConcentration(n) == [node \in 1..n |-> 1]

LifeNonZero(n) == [node \in 1..n |-> 1]

LifeSelectAction ==
  /\ Len(saved_actions) < MaxSteps
  /\ Len(means_concentration) < MaxStats
  /\ \E eval_mode \in BOOLEAN, value \in CriticValues(number_nodes) :
       \E sample \in BernoulliDraws(LifeNonZero(number_nodes)) :
         \E rsample \in RSamples(eval_mode, sample) :
           SelectAction(LifeConcentration(number_nodes), LifeNonZero(number_nodes),
                        value, eval_mode, sample, rsample)

LifeRewardAppend ==
  /\ Len(rewards) < MaxSteps
  /\ \E r \in 0..LifeReward : RewardAppend(r)

Next == LifeSelectAction \/ LifeRewardAppend \/ TrainingStep

Spec == Init /\ [][Next]_vars

----------------------------------------------------------------------------
(* SpecSample: one select_action call on every forward output and every draw. *)
(* The call reads none of the buffers, so it is taken from the constructed    *)
(* agent.                                                                     *)

SampleSelectAction ==
  /\ op = "init"
  /\ \E eval_mode \in BOOLEAN, value \in CriticValues(number_nodes) :
       \E concentration \in Concentrations(number_nodes),
          non_zero \in NonZeros(number_nodes) :
         \E sample \in BernoulliDraws(non_zero) :
           \E rsample \in RSamples(eval_mode, sample) :
             SelectAction(concentration, non_zero, value, eval_mode, sample, rsample)

NextSample == SampleSelectAction

SpecSample == Init /\ [][NextSample]_vars

----------------------------------------------------------------------------
(* SpecReturns: episodes of up to MaxEpisode steps, each a select_action      *)
(* followed by one reward, with training_step at any point.  The forward pass *)
(* gives concentration 1 and a participation probability saturated at 0.      *)

EpisodeNonZero(n) == [node \in 1..n |-> 0]

EpisodeSelectAction ==
  /\ Len(saved_actions) < MaxEpisode
  /\ Len(saved_actions) = Len(rewards)
  /\ \E value \in CriticValues(number_nodes) :
       \E sample \in BernoulliDraws(EpisodeNonZero(number_nodes)) :
         SelectAction(LifeConcentration(number_nodes), EpisodeNonZero(number_nodes),
                      value, FALSE, sample, NoPoint)

EpisodeRewardAppend ==
  /\ Len(rewards) < Len(saved_actions)
  /\ \E r \in (0 - 1)..MaxReward : RewardAppend(r)

NextReturns == EpisodeSelectAction \/ EpisodeRewardAppend \/ TrainingStep

SpecReturns == Init /\ [][NextReturns]_vars

----------------------------------------------------------------------------
(* Properties of the buffers (Spec) *)

\* C1, as stated in the specification: between two updates, after any
\* interleaving of select_action calls and reward appends, the two buffers have
\* the same length.
C1_LengthsAlwaysEqual == Len(saved_actions) = Len(rewards)

\* C1, amended: a select_action call lengthens saved_actions by one and leaves
\* rewards alone, a reward append lengthens rewards by one and leaves
\* saved_actions alone (so the lengths are equal exactly when calls and appends
\* have been paired since the last reset), and a training_step either empties
\* both buffers in the same step or, when it raises, changes neither.
C1_LengthsFollowOperations ==
  [][ /\ op' = "select_action" =>
           /\ Len(saved_actions') = Len(saved_actions) + 1
           /\ rewards' = rewards
      /\ op' = "reward_append" =>
           /\ Len(rewards') = Len(rewards) + 1
           /\ saved_actions' = saved_actions
      /\ op' = "training_step" =>
           \/ saved_actions' = <<>> /\ rewards' = <<>>
           \/ saved_actions' = saved_actions /\ rewards' = rewards ]_vars

\* buffers of different lengths were reset together by a completed training_step
C1_Witness ==
  /\ op = "training_step"
  /\ ~upd.raised
  /\ upd.n_actions # Len(upd.rewards)
  /\ saved_actions = <<>>
  /\ rewards = <<>>

\* C2: after a training_step call both buffers have length 0, whatever their
\* lengths before the call.
C2_BuffersEmptyAfterTrainingStep ==
  op = "training_step" => Len(saved_actions) = 0 /\ Len(rewards) = 0

\* C3: every select_action call appends exactly one SavedAction and leaves the
\* earlier records as they were; saved_actions only gets shorter in a
\* training_step, which empties it.
C3_AppendOnly ==
  [][ /\ op' = "select_action" =>
           /\ Len(saved_actions') = Len(saved_actions) + 1
           /\ SubSeq(saved_actions', 1, Len(saved_actions)) = saved_actions
      /\ Len(saved_actions') < Len(saved_actions) =>
           /\ op' = "training_step"
           /\ saved_actions' = <<>>
      /\ op' # "select_action" /\ Len(saved_actions') >= Len(saved_actions) =>
           saved_actions' = saved_actions ]_vars

\* a call in which no node participated appended the second record
C3_Witness ==
  /\ op = "select_action"
  /\ sel.concentration_without_zeros = <<>>
  /\ Len(saved_actions) = 2

\* C9: the value stored in every SavedAction is one scalar for the whole graph.
C9_ValueIsScalar ==
  \A t \in 1..Len(saved_actions) : Len(saved_actions[t].value) = 1

\* C10: a training_step called while the buffers differ in length raises.
C10_MismatchRaises ==
  (op = "training_step" /\ upd.n_actions # Len(upd.rewards)) => upd.raised

----------------------------------------------------------------------------
(* Properties of one select_action call (SpecSample) *)

RECURSIVE SetSum(_, _)
\* the sum of f over the finite set S
SetSum(f, S) ==
  IF S = {} THEN 0
  ELSE LET x == CHOOSE y \in S : TRUE IN f[x] + SetSum(f, S \ {x})

\* the nodes whose Bernoulli draw participates
Participating == { node \in 1..Len(sel.sample) : sel.sample[node] > 0 }

\* the position of a participating node among the participating nodes
Rank(node) == Cardinality({ j \in Participating : j <= node })

\* 1e-5, in 1/ONE
SumTolerance == ONE \div 100000

C5_Reassembly ==
  op = "select_action" =>
    /\ Len(sel.action_np) = number_nodes
    /\ Len(sel.concentration_without_zeros) = Cardinality(Participating)
    /\ Len(sel.dirichlet_action_np) = Cardinality(Participating)
    /\ \A node \in 1..number_nodes :
         IF node \in Participating
         THEN /\ sel.concentration_without_zeros[Rank(node)] = sel.concentration[node]
              /\ sel.action_np[node] = sel.dirichlet_action_np[Rank(node)]
         ELSE sel.action_np[node] = 0

\* both nodes participated and drew different shares
C5_Witness ==
  /\ op = "select_action"
  /\ sel.sample = <<1, 1>>
  /\ ~sel.eval_mode
  /\ sel.action_np[1] # sel.action_np[2]

\* C6: the recorded log-probability is the sum over the nodes of log p
\* (participated) or log(1 - p) (abstained), plus the Dirichlet log-probability
\* of the action's point when some node participates, plus 0 when none does.
C6_LogProb ==
  op = "select_action" =>
    saved_actions[Len(saved_actions)].log_prob =
      SetSum([node \in 1..number_nodes |->
                IF node \in Participating
                THEN LogProb(sel.non_zero[node])
                ELSE LogOneMinusProb(sel.non_zero[node])],
             1..number_nodes)
      + (IF Participating # {}
         THEN DirichletLogProb(sel.concentration_without_zeros, sel.dirichlet_action)
         ELSE 0)

\* a node with 0 < p < 1 abstained while the other participated
C6_Witness ==
  /\ op = "select_action"
  /\ sel.sample = <<1, 0>>
  /\ sel.non_zero[2] > 0
  /\ saved_actions[1].log_prob < LogProb(sel.non_zero[1])

\* C7: in evaluation mode the returned vector is a function of the
\* concentrations and the participation draws alone: a participating node's
\* share is its concentration over the sum of the participating concentrations.
C7_EvalDeterministic ==
  (op = "select_action" /\ sel.eval_mode) =>
    \A node \in 1..number_nodes :
      sel.action_np[node] =
        IF node \in Participating
        THEN RoundDiv(sel.concentration[node] * ONE,
                      SetSum(sel.concentration, Participating))
        ELSE 0

\* evaluation mode with two participating nodes of different concentrations
C7_Witness ==
  /\ op = "select_action"
  /\ sel.eval_mode
  /\ sel.sample = <<1, 1>>
  /\ sel.concentration = <<1, 2>>

----------------------------------------------------------------------------
(* Properties of the discounted returns (SpecReturns) *)

\* the recurrence and the order of the returns of the last training_step
ReturnsRecurrence ==
  LET n == Len(upd.rewards)
  IN /\ Len(upd.returns) = n
     /\ n > 0 => upd.returns[n] = upd.rewards[n] * RetScale
     /\ \A t \in 1..(n - 1) :
          GammaDen * upd.returns[t] =
            GammaDen * upd.rewards[t] * RetScale + GammaNum * upd.returns[t + 1]

\* C8, as stated in the specification: R_{n-1} = r_{n-1}, R_t = r_t + 0.97 R_{t+1},
\* in forward time order, and rewards [1, 1, 1] give [2.9409, 1.97, 1].
C8_ReturnsAsStated ==
  op = "training_step" =>
    /\ ReturnsRecurrence
    /\ upd.rewards = <<1, 1, 1>> =>
         upd.returns = <<29409 * (RetScale \div 10000), 19700 * (RetScale \div 10000),
                         10000 * (RetScale \div 10000)>>

\* C8, amended: the same recurrence and order; rewards [1, 1, 1] give
\* [2.9109, 1.97, 1].
C8_Returns ==
  op = "training_step" =>
    /\ ReturnsRecurrence
    /\ upd.rewards = <<1, 1, 1>> =>
         upd.returns = <<29109 * (RetScale \div 10000), 19700 * (RetScale \div 10000),
                         10000 * (RetScale \div 10000)>>

\* a completed update of the episode with rewards [1, 1, 1]
C8_Witness ==
  /\ op = "training_step"
  /\ ~upd.raised
  /\ upd.rewards = <<1, 1, 1>>

----------------------------------------------------------------------------
(* SpecParse: parse_obs, under every policy, on simulators whose nodes are    *)
(* the grid of up to MaxRegions regions and MaxChargeLevels charge levels,    *)
(* whose edge list holds up to MaxSimEdges distinct edges between the first   *)
(* and the last node, and whose edge index lists the same edges by position.  *)
(* max_charge is the number of charge levels, as A2C.forward passes it, or    *)
(* one less, the highest level.                                               *)

\* env.nodes: region by region, the charge levels from 0
Grid(regions, levels) ==
  [k \in 1..(regions * levels) |-> <<((k - 1) \div levels) + 1, (k - 1) % levels>>]

\* the lists of up to MaxSimEdges distinct edges between the given nodes
SimEdgeLists(ends) ==
  {edges \in UNION {[1..m -> ends \X ends] : m \in 0..MaxSimEdges} :
     \A k, l \in 1..Len(edges) : k # l => edges[k] # edges[l]}

InitParse ==
  /\ \E regions \in 1..MaxRegions, levels \in 1..MaxChargeLevels :
       \E charge_delta \in 0..MaxDelta, max_charge \in {levels - 1, levels},
          T \in 1..MaxHorizon :
         LET nodes == Grid(regions, levels)
         IN \E edges \in SimEdgeLists({nodes[1], nodes[Len(nodes)]}) :
              /\ number_nodes = Len(nodes)
              /\ scenario =
                   [nodes |-> nodes, edges |-> edges,
                    gcn_edge_idx |-> [k \in 1..Len(edges) |->
                                        <<IndexOf(nodes, edges[k][1], 1),
                                          IndexOf(nodes, edges[k][2], 1)>>],
                    charge_delta |-> charge_delta, max_charge |-> max_charge,
                    T |-> T]
  /\ Constructed

\* the call reads the simulator alone, so it is taken from the constructed agent
ParseObsCall ==
  /\ op = "init"
  /\ \E version \in 0..6, MPNN \in BOOLEAN : ParseObs(version, MPNN)

NextParse == ParseObsCall

SpecParse == InitParse /\ [][NextParse]_vars

----------------------------------------------------------------------------
(* Properties of parse_obs (SpecParse) *)

\* the (origin, destination) pairs of an edge index
PairSet(edge_index) == {edge_index[k] : k \in 1..Len(edge_index)}

\* C11: on one simulator, every (origin, destination) pair of the edge index
\* of policy 1 is in the edge index of policy 2, and every pair of policy 3 is
\* in that of policy 4.
C11_PolicySubsets ==
  parsed.called =>
    /\ parsed.version = 1 => PairSet(parsed.edge_index) \subseteq PairSet(EdgeIndex(scenario, 2))
    /\ parsed.version = 2 => PairSet(EdgeIndex(scenario, 1)) \subseteq PairSet(parsed.edge_index)
    /\ parsed.version = 3 => PairSet(parsed.edge_index) \subseteq PairSet(EdgeIndex(scenario, 4))
    /\ parsed.version = 4 => PairSet(EdgeIndex(scenario, 3)) \subseteq PairSet(parsed.edge_index)

\* policy 4 was parsed on a simulator where policy 3 has edges and policy 4 more
C11_Witness ==
  /\ parsed.called
  /\ parsed.version = 4
  /\ PairSet(EdgeIndex(scenario, 3)) # {}
  /\ PairSet(EdgeIndex(scenario, 3)) # PairSet(parsed.edge_index)

\* C12: under every policy, no two entries of the edge index are the same
\* (origin, destination) pair appended by the same rule (the simulator's edge
\* index counting as one rule).
C12_NoDuplicateWithSameProvenance ==
  parsed.called =>
    \A k, l \in 1..Len(parsed.edge_index) :
      k # l => ~ (/\ parsed.edge_index[k] = parsed.edge_index[l]
                  /\ parsed.provenance[k] = parsed.provenance[l])

\* policy 5 gave one pair twice, once by its own scan and once from the simulator
C12_Witness ==
  /\ parsed.called
  /\ parsed.version = 5
  /\ \E k, l \in 1..Len(parsed.edge_index) :
       /\ parsed.edge_index[k] = parsed.edge_index[l]
       /\ parsed.provenance[k] = "self_loop"
       /\ parsed.provenance[l] = "simulator"

\* C13: under policy 1 the edge index has exactly one entry per node, the node
\* to itself, and nothing else, whatever the simulator's edge list.
C13_SelfLoopsOnly ==
  parsed.called /\ parsed.version = 1 =>
    /\ Len(parsed.edge_index) = Len(scenario.nodes)
    /\ \A k \in 1..Len(parsed.edge_index) : parsed.edge_index[k] = <<k, k>>

\* policy 1 was parsed on a simulator of several nodes with edges of its own
C13_Witness ==
  /\ parsed.called
  /\ parsed.version = 1
  /\ Len(scenario.nodes) > 1
  /\ \E k \in 1..Len(scenario.edges) : scenario.edges[k][1] # scenario.edges[k][2]
  /\ Len(parsed.edge_index) = Len(scenario.nodes)

\* the vector the edge at position k of the edge index should carry
ExpectedRow(k) ==
  LET e == <<scenario.nodes[parsed.edge_index[k][1]],
             scenario.nodes[parsed.edge_index[k][2]]>>
  IN [f \in 1..(3 * scenario.T) |->
        IF ~ IsSimulatorEdge(scenario, e) THEN 0
        ELSE IF f <= scenario.T THEN Demand(scenario, e, f)
        ELSE IF f <= 2 * scenario.T THEN Price(scenario, e, f - scenario.T)
        ELSE EnergyDistance(scenario, e)]

\* C14: with edge features requested, row k of the edge-feature matrix is
\* demand || price || distance of the edge at position k of the edge index when
\* the simulator defines that edge, and all zeros otherwise.
C14_RowsFollowEdges ==
  parsed.called /\ parsed.MPNN =>
    /\ Len(parsed.edge_attr) = Len(parsed.edge_index)
    /\ \A k \in 1..Len(parsed.edge_index) : parsed.edge_attr[k] = ExpectedRow(k)

----------------------------------------------------------------------------
(* SpecLoss: training_step on a one-node graph after up to MaxLossSteps        *)
(* select_action calls and as many rewards or fewer or more.  A log           *)
(* probability is ordinary (ln 1/2) or -LargeLogProb / 1000, the density of a *)
(* Dirichlet being unbounded; a critic value is 0 or LargeValue / 1000.       *)

LossLogProbs == {0 - LargeLogProb, 0 - 693}

LossValues == {0, LargeValue}

LossActions ==
  UNION {[1..n -> {SavedAction(log_prob, <<value>>) :
                     log_prob \in LossLogProbs, value \in LossValues}] :
           n \in 1..MaxLossSteps}

LossRewards == UNION {[1..n -> 0..LossReward] : n \in 1..MaxLossSteps}

InitLoss ==
  /\ number_nodes = 1
  /\ scenario = NoScenario
  /\ ConstructedOutsideBuffers
  /\ saved_actions \in LossActions
  /\ rewards \in LossRewards

NextLoss == TrainingStep

SpecLoss == InitLoss /\ [][NextLoss]_vars

----------------------------------------------------------------------------
(* Properties of the losses (SpecLoss) *)

\* the sum of the numbers of a list of scalars
ValSum(losses) == SeqSum([t \in 1..Len(losses) |-> losses[t].val])

\* C15, as stated in the specification: the actor loss training_step returns
\* always lies in [-1000, 1000].
C15_ActorLossAlwaysInRange ==
  op = "training_step" /\ ~ upd.raised =>
    /\ ~ upd.a_loss.nan
    /\ upd.a_loss.val >= 0 - 1000 * LossClamp
    /\ upd.a_loss.val <= 1000 * LossClamp

\* C15, as the code computes it: in a training_step that completes, the term
\* of step t is -log_prob * (normalized return - value) for the actor and the
\* smooth L1 distance of value and normalized return for the critic.  With two
\* rewards or more the actor loss is the sum of its terms brought into
\* [-1000, 1000] and the critic loss the plain sum of its terms; with a single
\* reward the normalized return is nan and so are both losses.
C15_Losses ==
  [][op' = "training_step" /\ ~ upd'.raised =>
       LET n == upd'.n_pairs
           z == upd'.normalized
           a_sum == ValSum(upd'.policy_losses)
       IN /\ n = Min2(Len(saved_actions), Len(rewards))
          /\ Len(upd'.policy_losses) = n
          /\ Len(upd'.value_losses) = n
          /\ IF Len(rewards) = 1
             THEN upd'.a_loss.nan /\ upd'.v_loss.nan
             ELSE /\ \A t \in 1..n :
                       LET adv == z[t].val - saved_actions[t].value[1]
                           dist == Abs(adv)
                       IN /\ ~ z[t].nan
                          /\ upd'.policy_losses[t] =
                               Num(MulMilli(0 - saved_actions[t].log_prob, adv))
                          /\ upd'.value_losses[t] =
                               Num(IF dist < 1000 THEN (dist * dist) \div 2000
                                                  ELSE dist - 500)
                  /\ ~ upd'.a_loss.nan
                  /\ upd'.a_loss.val >= 0 - 1000 * LossClamp
                  /\ upd'.a_loss.val <= 1000 * LossClamp
                  /\ a_sum > 1000 * LossClamp => upd'.a_loss.val = 1000 * LossClamp
                  /\ a_sum < 0 - 1000 * LossClamp =>
                       upd'.a_loss.val = 0 - 1000 * LossClamp
                  /\ Abs(a_sum) <= 1000 * LossClamp => upd'.a_loss.val = a_sum
                  /\ upd'.v_loss = Num(ValSum(upd'.value_losses))]_vars

\* an update whose actor terms sum below -1000, returned as -1000, and whose
\* critic loss is above 1000, returned as it is
C15_Witness ==
  /\ op = "training_step"
  /\ ~ upd.raised
  /\ Len(upd.rewards) > 1
  /\ ValSum(upd.policy_losses) < 0 - 1000 * LossClamp
  /\ upd.a_loss.val = 0 - 1000 * LossClamp
  /\ upd.v_loss.val > 1000 * LossClamp

----------------------------------------------------------------------------
(* SpecAgent: every operation of the agent, in any order, on simulators of    *)
(* one node, where training_step completes unless a buffer is empty.  The     *)
(* forward pass gives concentration 1 or MaxConc and the participation        *)
(* probability of Spec; the mode is evaluation; the buffers hold up to        *)
(* MaxAgentSteps entries and the statistics up to MaxStats;                   *)
(* decay_learning_rate is called with its default scalers, 1 and 1.           *)

InitOneNode ==
  /\ number_nodes = 1
  /\ scenario = NoScenario
  /\ Constructed

AgentSelectAction ==
  /\ Len(saved_actions) < MaxAgentSteps
  /\ Len(means_concentration) < MaxStats
  /\ \E value \in CriticValues(number_nodes), c \in {1, MaxConc} :
       \E sample \in BernoulliDraws(LifeNonZero(number_nodes)) :
         SelectAction([node \in 1..number_nodes |-> c], LifeNonZero(number_nodes),
                      value, TRUE, sample, NoPoint)

AgentRewardAppend ==
  /\ Len(rewards) < MaxAgentSteps
  /\ RewardAppend(1)

AgentSetEnv == \E e \in 1..MaxEnvs : SetEnv(e, number_nodes)

AgentDecayLearningRate ==
  /\ Len(decay_calls) < MaxDecays
  /\ DecayLearningRate(ScalerDen, ScalerDen)

AgentReadOnlyCall ==
  \E name \in {"forward", "select_equal_action", "log"} : ReadOnlyCall(name)

NextAgent ==
  \/ AgentSelectAction
  \/ AgentRewardAppend
  \/ TrainingStep
  \/ AgentSetEnv
  \/ AgentDecayLearningRate
  \/ SaveCheckpoint
  \/ LoadCheckpoint
  \/ AgentReadOnlyCall

SpecAgent == InitOneNode /\ [][NextAgent]_vars

----------------------------------------------------------------------------
(* SpecRates: decay_learning_rate with any scalers s / ScalerDen, s in        *)
(* 1..MaxScaler, up to MaxDecays times, between the operations that could     *)
(* touch a learning rate: select_action (all nodes abstaining), reward        *)
(* appends, training_step and set_env, on a one-node graph.                   *)

RatesSelectAction ==
  /\ Len(saved_actions) < MaxAgentSteps
  /\ \E value \in CriticValues(number_nodes) :
       \E sample \in BernoulliDraws(EpisodeNonZero(number_nodes)) :
         SelectAction(LifeConcentration(number_nodes), EpisodeNonZero(number_nodes),
                      value, FALSE, sample, NoPoint)

RatesDecayLearningRate ==
  /\ Len(decay_calls) < MaxDecays
  /\ \E scaler_a \in 1..MaxScaler, scaler_c \in 1..MaxScaler :
       DecayLearningRate(scaler_a, scaler_c)

NextRates ==
  \/ RatesSelectAction
  \/ AgentRewardAppend
  \/ TrainingStep
  \/ AgentSetEnv
  \/ RatesDecayLearningRate

SpecRates == InitOneNode /\ [][NextRates]_vars

----------------------------------------------------------------------------
(* Properties of the learning rates (SpecRates) *)

RECURSIVE ScalerProduct(_, _)
\* the product of the scalers s of the calls, for the actor ("a") or the critic
\* ("c"); a scaler is s / ScalerDen
ScalerProduct(calls, net) ==
  IF calls = <<>> THEN 1 ELSE Head(calls)[net] * ScalerProduct(Tail(calls), net)

----------------------------------------------------------------------------
(* Properties of the whole agent (SpecAgent) *)

\* C17, as stated in the specification: only training_step changes the weights
\* of the actor and the critic; every other operation, load_checkpoint
\* included, leaves them as they are.
C17_OnlyTrainingStepChangesParams ==
  [][op' # "training_step" => params' = params]_vars

\* C17, amended: the weights are changed by a training_step that completes and
\* by load_checkpoint, which makes them the saved ones; a training_step that
\* raises and every other operation leave them as they are.
C17_ParamsFrame ==
  [][/\ op' \notin {"training_step", "load_checkpoint"} => params' = params
     /\ op' = "training_step" /\ upd'.raised => params' = params
     /\ op' = "load_checkpoint" =>
          params' = IF ckpt.saved THEN ckpt.model ELSE params]_vars

\* an update has just moved the weights away from those of the saved checkpoint
C17_Witness ==
  /\ op = "training_step"
  /\ ~ upd.raised
  /\ ckpt.saved
  /\ params # ckpt.model

\* C19: training_step leaves the concentration statistics as they are.  A
\* select_action with a participant lengthens each by one, one without leaves
\* them, set_env empties them and no other operation touches them; the
\* diagnostics a training_step returns are the means over the whole lists.
C19_StatisticsGrow ==
  [][/\ op' = "select_action" =>
          IF sel'.concentration_without_zeros # <<>>
          THEN /\ Len(means_concentration') = Len(means_concentration) + 1
               /\ SubSeq(means_concentration', 1, Len(means_concentration)) =
                    means_concentration
               /\ Len(std_concentration') = Len(std_concentration) + 1
               /\ SubSeq(std_concentration', 1, Len(std_concentration)) =
                    std_concentration
          ELSE /\ means_concentration' = means_concentration
               /\ std_concentration' = std_concentration
     /\ op' = "set_env" => means_concentration' = <<>> /\ std_concentration' = <<>>
     /\ op' \notin {"select_action", "set_env"} =>
          /\ means_concentration' = means_concentration
          /\ std_concentration' = std_concentration
     /\ op' = "training_step" /\ ~ upd'.raised =>
          /\ upd'.mean_concentration.nan = (means_concentration = <<>>)
          /\ means_concentration # <<>> =>
               upd'.mean_concentration.val =
                 RoundDiv(SeqSum(means_concentration), Len(means_concentration))
          /\ upd'.mean_std.nan = (std_concentration = <<>>)]_vars

\* an update of one action returned the mean of two statistics that differ,
\* the first of them recorded in an episode already updated
C19_Witness ==
  /\ op = "training_step"
  /\ ~ upd.raised
  /\ upd.n_actions = 1
  /\ Len(means_concentration) = 2
  /\ means_concentration[1] # means_concentration[2]
  /\ 2 * upd.mean_concentration.val = means_concentration[1] + means_concentration[2]

\* C20: set_env makes the parser read the new simulator and empties the
\* concentration statistics, and leaves saved_actions and rewards as they are;
\* the next training_step takes whatever the two buffers hold.
C20_SetEnvKeepsBuffers ==
  [][/\ op' = "set_env" =>
          /\ obs_parser'.env = env'
          /\ means_concentration' = <<>>
          /\ std_concentration' = <<>>
          /\ saved_actions' = saved_actions
          /\ rewards' = rewards
     /\ op' = "training_step" =>
          /\ upd'.n_actions = Len(saved_actions)
          /\ upd'.rewards = rewards
          /\ ~ upd'.raised => saved_actions' = <<>> /\ rewards' = <<>>]_vars

\* set_env has just replaced the first simulator while both buffers hold records
C20_Witness ==
  /\ op = "set_env"
  /\ env # 1
  /\ obs_parser.env = env
  /\ saved_actions # <<>>
  /\ rewards # <<>>
  /\ means_concentration = <<>>

----------------------------------------------------------------------------
(* The baseline driver (main_baselines.py): one pass of its loop, from the    *)
(* equal allocation to the two assertions on the desired vehicle counts.      *)

\* select_equal_action(): np.ones(n_nodes) / n_nodes, each share in 1/ONE
SelectEqualAction(n_nodes) == [i \in 1..n_nodes |-> RoundDiv(ONE, n_nodes)]

\* dictsum(env.acc, env.time + 1): the vehicles of all nodes at that time
dictsum(acc) == SeqSum(acc)

\* int(action_rl[i] * total): the floating product, truncated.  The product of
\* the rounded share is exact here; where it falls short of an integer by no
\* more than the rounding of the share, the float product may round up to that
\* integer, so both truncations are possible
Truncations(share, total) ==
  LET x == share * total
      lo == x \div ONE
  IN IF x % ONE # 0 /\ ONE - (x % ONE) <= total THEN {lo, lo + 1} ELSE {lo}

\* np.argmax(action_rl): the first position of the largest share
ArgMax(action) ==
  CHOOSE i \in 1..Len(action) :
    /\ \A j \in 1..Len(action) : action[j] <= action[i]
    /\ \A j \in 1..(i - 1) : action[j] < action[i]

\* if missing_cars != 0: desiredAcc[env.nodes[most_likely_node]] += missing_cars
AddMissing_Dropped(desiredAcc, node, missing_cars) == desiredAcc

AddMissing(desiredAcc, node, missing_cars) ==
  IF missing_cars # 0
  THEN [desiredAcc EXCEPT ![node] = desiredAcc[node] + missing_cars]
  ELSE desiredAcc

\* lines 126-138 with env.acc[n][env.time + 1] = acc[n], the nodes having equal
\* shares and so the same truncation
DriverStep(acc, truncation) ==
  LET action_rl == SelectEqualAction(number_nodes)
      total_acc == SeqSum(acc)
      truncated == [i \in 1..number_nodes |-> truncation]
      missing_cars == total_acc - SeqSum(truncated)
      desiredAcc == AddMissing(truncated, ArgMax(action_rl), missing_cars)
  IN /\ truncation \in Truncations(action_rl[1], dictsum(acc))
     /\ drv' = [stepped |-> TRUE, action_rl |-> action_rl, acc |-> acc,
                total_acc |-> total_acc, truncated |-> truncated,
                missing_cars |-> missing_cars, desiredAcc |-> desiredAcc,
                sum_asserted |-> SeqSum(desiredAcc) = total_acc,
                nonneg_asserted |-> \A n \in 1..number_nodes : desiredAcc[n] >= 0]
     /\ op' = "driver_step"
     /\ sel' = NoSel
     /\ upd' = NoUpd
     /\ UNCHANGED <<number_nodes, saved_actions, rewards, means_concentration,
                    std_concentration, networks, ckpt, decay_calls, scenario, parsed>>

----------------------------------------------------------------------------
(* SpecDriver: the driver on a simulator of up to DriverNodes nodes, each     *)
(* node holding up to MaxAcc vehicles at every step.                          *)

InitDriver ==
  /\ number_nodes \in 1..DriverNodes
  /\ scenario = NoScenario
  /\ Constructed

\* model.set_env(env), before the loop
DriverSetEnv ==
  /\ op = "init"
  /\ SetEnv(env, number_nodes)

\* a pass reads the node count and the simulator's vehicle counts alone, so
\* one pass on every vehicle count stands for every step of the loop
DriverLoop ==
  /\ op = "set_env"
  /\ \E acc \in [1..number_nodes -> 0..MaxAcc] :
       \E truncation \in Truncations(SelectEqualAction(number_nodes)[1], dictsum(acc)) :
         DriverStep(acc, truncation)

NextDriver == DriverSetEnv \/ DriverLoop

SpecDriver == InitDriver /\ [][NextDriver]_vars

----------------------------------------------------------------------------
(* Properties of the driver (SpecDriver) *)

\* C18: after every pass of the loop the desired counts sum to the total number
\* of vehicles and none is negative: both assertions hold.
C18_IntegerizationExact ==
  drv.stepped =>
    /\ drv.sum_asserted
    /\ drv.nonneg_asserted
    /\ SeqSum(drv.desiredAcc) = SeqSum(drv.acc)
    /\ \A n \in 1..Len(drv.desiredAcc) : drv.desiredAcc[n] >= 0

\* three nodes and a total the truncation loses several vehicles of, all given
\* to the first node
C18_Witness ==
  /\ drv.stepped
  /\ number_nodes = 3
  /\ drv.missing_cars > 1
  /\ drv.desiredAcc[1] = drv.truncated[1] + drv.missing_cars
  /\ SeqSum(drv.desiredAcc) = drv.total_acc

====
